---- MODULE Spec2Model ----
(***************************************************************************)
(* Model of the PDF layout reconstruction scripts                          *)
(*   scripts/pdf_extract_coords.py  (CoordinateBasedExtractor)             *)
(*   scripts/pdf_extract.py         (PDFExtractor)                         *)
(*                                                                         *)
(* Number representation.  Vertical coordinates (glyph 'top', line 'y')    *)
(* are floats in the program; here they are integers counting HALF units,  *)
(* so that round() is a real conversion (Python rounds halves to even).    *)
(* Horizontal coordinates and table corners are whole units.  Text is a    *)
(* sequence of one-character tokens; the non-ASCII marker glyphs are named *)
(* by tokens ("SQ_BLACK" for the black square, and so on).                 *)
(***************************************************************************)
EXTENDS Integers, Sequences, FiniteSets, TLC

VARIABLES
    pc,          \* position of the modelled call
    chars,       \* page.chars handed to group_text_by_lines
    lines,       \* Lines (output of group_text_by_lines / input of detect_structure)
    width,       \* page.width (0 stands for a missing/zero width)
    elements,    \* output of detect_structure
    mode,        \* table extraction flow: "union" (extract_tables_with_coords) or "best_of" (extract_tables)
    strategy,    \* index of the strategy of the current loop iteration
    remaining,   \* tables of page_tables not yet visited
    tables,      \* the tables list being returned
    best_tables,     \* extract_tables: candidates of the best strategy so far
    best_score,      \* extract_tables: its summed score
    current_tables,  \* extract_tables: candidates of the current strategy
    current_score,   \* extract_tables: their summed score
    origin,      \* history: strategy that produced each entry of tables
    failed,      \* history: strategies whose try block raised
    sums,        \* history: per finished strategy, its summed score and candidate count
    dropped,     \* history: corners of the candidates dropped as duplicates
    doc,         \* the PDF file: whether it exists, how opening it ends, its pages
    args,        \* command line: min_quality, strict, ignore_quality
    quality_report,  \* self.quality_report of the CoordinateBasedExtractor
    result,      \* the dict returned by the last extract() call (<<>> before any call)
    calls,       \* extract() calls made on the extractor
    prev_report, \* history: self.quality_report before the last extract() call
    parts,       \* history: the sub-scores of the last assess_quality, <<>> if none
    exit_code    \* argument of sys.exit (-1 while the process runs)

textvars == <<chars, lines, width, elements>>

tablevars ==
    <<mode, strategy, remaining, tables, best_tables, best_score,
      current_tables, current_score, origin, failed, sums, dropped>>

extractvars == <<doc, args, quality_report, result, calls, prev_report, parts, exit_code>>

vars == <<pc, textvars, tablevars, extractvars>>

----------------------------------------------------------------------------
(* Bounds of the model *)

MaxChars == 3     \* glyphs on a page
MaxTop == 5       \* largest glyph top, in half units
MaxX == 1         \* largest glyph x0
MaxTables == 2    \* tables returned by one page.find_tables call
MaxPages == 2     \* pages of a document
MaxCalls == 2     \* extract() calls on one extractor

\* the table extraction variables while no table extraction runs
TablesIdle ==
    /\ mode = "none"
    /\ strategy = 0
    /\ remaining = 0
    /\ tables = <<>>
    /\ best_tables = <<>>
    /\ best_score = 0
    /\ current_tables = <<>>
    /\ current_score = 0
    /\ origin = <<>>
    /\ failed = {}
    /\ sums = <<>>
    /\ dropped = {}

\* self.quality_report as __init__ builds it (lines 24-29); scores are <<numerator, denominator>>
NewReport ==
    [overall_score |-> <<0, 1>>, table_scores |-> <<>>, warnings |-> <<>>, errors |-> <<>>]

\* the document variables while no document is processed
ExtractIdle ==
    /\ doc = [exists |-> FALSE, open_error |-> <<>>, pages |-> <<>>]
    /\ args = [min_quality |-> <<0, 1>>, strict |-> FALSE, ignore_quality |-> FALSE]
    /\ quality_report = NewReport
    /\ result = <<>>
    /\ calls = 0
    /\ prev_report = NewReport
    /\ parts = <<>>
    /\ exit_code = -1

\* the text variables while no text processing runs
TextIdle ==
    /\ chars = <<>>
    /\ lines = <<>>
    /\ width = 0
    /\ elements = <<>>

----------------------------------------------------------------------------
(* Arithmetic helpers *)

Abs(n) == IF n < 0 THEN -n ELSE n

Min(a, b) == IF a < b THEN a ELSE b

Max(a, b) == IF a > b THEN a ELSE b

\* n whole units expressed in half units
Units(n) == 2 * n

\* Python round() of a value given in half units: halves go to the even integer
round(h) ==
    IF h % 2 = 0 THEN h \div 2
    ELSE LET lo == (h - 1) \div 2
         IN  IF lo % 2 = 0 THEN lo ELSE lo + 1

----------------------------------------------------------------------------
(* group_text_by_lines *)

y_tolerance == 2

\* the sort key of line 131: (round(c['top']), c['x0'])
SortKeyLE(a, b) ==
    \/ round(a.top) < round(b.top)
    \/ round(a.top) = round(b.top) /\ a.x0 <= b.x0

\* sorted() is stable: c goes behind every element whose key is <= its own
RECURSIVE InsertSorted(_, _)
InsertSorted(s, c) ==
    IF s = <<>> THEN <<c>>
    ELSE IF SortKeyLE(Head(s), c) THEN <<Head(s)>> \o InsertSorted(Tail(s), c)
    ELSE <<c>> \o s

RECURSIVE sorted_chars(_)
sorted_chars(cs) ==
    IF cs = <<>> THEN <<>>
    ELSE InsertSorted(sorted_chars(SubSeq(cs, 1, Len(cs) - 1)), cs[Len(cs)])

NewLine(char) ==
    [y |-> char.top, x_min |-> char.x0, x_max |-> char.x1,
     height |-> char.height, chars |-> <<char>>, text |-> <<char.text>>]

AddToLine(line, char) ==
    [line EXCEPT !.chars = Append(@, char),
                 !.text = Append(@, char.text),
                 !.x_min = Min(@, char.x0),
                 !.x_max = Max(@, char.x1)]

\* faulty variant: the tolerance band is one half unit too wide
StartsNewLine_wide(current, char) ==
    current = <<>> \/ Abs(char.top - current[1].y) > Units(y_tolerance) + 1

\* the glyph opens a new Line (line 136); current is <<>> for None
StartsNewLine(current, char) ==
    current = <<>> \/ Abs(char.top - current[1].y) > Units(y_tolerance)

\* the loop of lines 133-153 over the sorted glyphs; current is <<>> or <<line>>
RECURSIVE GroupWalk(_, _, _)
GroupWalk(rest, out, current) ==
    IF rest = <<>> THEN out \o current
    ELSE LET char == Head(rest)
         IN  IF StartsNewLine(current, char)
             THEN GroupWalk(Tail(rest), out \o current, <<NewLine(char)>>)
             ELSE GroupWalk(Tail(rest), out, <<AddToLine(current[1], char)>>)

group_text_by_lines(cs) ==
    IF cs = <<>> THEN <<>>
    ELSE GroupWalk(sorted_chars(cs), <<>>, <<>>)

----------------------------------------------------------------------------
(* Inputs of the grouper: glyph i of the page carries its position i as   *)
(* identity and the i-th letter as text                                   *)

Letters == <<"a", "b", "c", "d", "e", "f">>

GlyphAt(i, t, x) ==
    [id |-> i, text |-> Letters[i], x0 |-> x, x1 |-> x + 1, top |-> t, height |-> 1]

InitGroup ==
    /\ pc = "group"
    /\ \E n \in 0..MaxChars : \E f \in [1..n -> (0..MaxTop) \X (0..MaxX)] :
          chars = [i \in 1..n |-> GlyphAt(i, f[i][1], f[i][2])]
    /\ lines = <<>>
    /\ width = 0
    /\ elements = <<>>
    /\ TablesIdle
    /\ ExtractIdle

GroupTextByLines ==
    /\ pc = "group"
    /\ lines' = group_text_by_lines(chars)
    /\ pc' = "grouped"
    /\ UNCHANGED <<chars, width, elements, tablevars, extractvars>>

NextGroup == GroupTextByLines

SpecGroup == InitGroup /\ [][NextGroup]_vars

----------------------------------------------------------------------------
(* Claims about group_text_by_lines *)

\* (line index, position) pairs at which glyph id i sits in the output
Places(ls, i) ==
    { p \in (1..Len(ls)) \X (1..MaxChars + 1) :
        p[2] <= Len(ls[p[1]].chars) /\ ls[p[1]].chars[p[2]].id = i }

\* C1: the output Lines partition the input glyphs (each glyph in exactly one
\* Line, no other member), every member is within 2 units of the Line's y,
\* y is the top of the Line's first glyph, and empty input gives no Lines.
C1_Partition ==
    pc = "grouped" =>
        /\ \A i \in 1..Len(chars) : Cardinality(Places(lines, i)) = 1
        /\ \A k \in 1..Len(lines) :
              /\ lines[k].chars # <<>>
              /\ lines[k].y = lines[k].chars[1].top
              /\ \A j \in 1..Len(lines[k].chars) :
                    /\ lines[k].chars[j] = chars[lines[k].chars[j].id]
                    /\ Abs(lines[k].chars[j].top - lines[k].y) <= Units(2)
        /\ (chars = <<>> => lines = <<>>)

\* a Line whose later member sits exactly 2 units from the anchor, next to a second Line
C1_Witness ==
    /\ pc = "grouped"
    /\ Len(lines) = 2
    /\ \E k \in 1..Len(lines) : \E j \in 2..Len(lines[k].chars) :
          Abs(lines[k].chars[j].top - lines[k].y) = Units(2)

\* C2 (as claimed): Lines are ordered by increasing anchor and the glyphs of
\* every Line are ordered by non-decreasing x0.
C2_ReadingOrder ==
    pc = "grouped" =>
        /\ \A k \in 1..Len(lines) - 1 : lines[k].y < lines[k + 1].y
        /\ \A k \in 1..Len(lines) : \A j \in 1..Len(lines[k].chars) - 1 :
              lines[k].chars[j].x0 <= lines[k].chars[j + 1].x0

----------------------------------------------------------------------------
(* Text helpers: str.strip, str.startswith, str.endswith on token sequences *)

Whitespace == {" ", "\t", "\n"}

RECURSIVE lstrip(_)
lstrip(t) ==
    IF t # <<>> /\ Head(t) \in Whitespace THEN lstrip(Tail(t)) ELSE t

RECURSIVE rstrip(_)
rstrip(t) ==
    IF t # <<>> /\ t[Len(t)] \in Whitespace THEN rstrip(SubSeq(t, 1, Len(t) - 1)) ELSE t

strip(t) == rstrip(lstrip(t))

startswith(t, prefix) ==
    Len(t) >= Len(prefix) /\ SubSeq(t, 1, Len(prefix)) = prefix

endswith(t, suffix) ==
    Len(t) >= Len(suffix) /\ SubSeq(t, Len(t) - Len(suffix) + 1, Len(t)) = suffix

----------------------------------------------------------------------------
(* detect_structure and its rules *)

\* the heading glyphs of lines 201 and 219: white square, black square
HeadingMarkers == {"SQ_WHITE", "SQ_BLACK"}

\* markers of lines 228 and 233, in list order
markers ==
    <<"CIRCLE_WHITE", "CIRCLE_BLACK", "SQ_SMALL_BLACK", "SQ_SMALL_WHITE",
      "BULLET_WHITE", "BULLET", "-", "*">>

StartsWithHeadingMarker(text) ==
    \E m \in HeadingMarkers : startswith(text, <<m>>)

\* twice the page centre: page.width / 2 if page.width else 300
PageCenter2(w) == IF w # 0 THEN w ELSE 2 * 300

\* abs(line_center - page_center) < 50, both sides doubled
RoughlyCentered(line, w) ==
    Abs((line.x_min + line.x_max) - PageCenter2(w)) < 2 * 50

is_heading(text, line, w) ==
    IF StartsWithHeadingMarker(text) THEN TRUE
    ELSE IF startswith(text, <<"-", " ">>) /\ endswith(text, <<" ", "-">>) /\ Len(text) < 10
         THEN TRUE
    ELSE IF Len(text) < 50 /\ RoughlyCentered(line, w) THEN TRUE
    ELSE FALSE

get_heading_level(text, line) ==
    IF StartsWithHeadingMarker(text) THEN 1
    ELSE IF startswith(text, <<"-", " ">>) /\ endswith(text, <<" ", "-">>) THEN 3
    ELSE 2

is_list_item(text) ==
    \E i \in 1..Len(markers) :
        startswith(text, <<markers[i], " ">>) \/ text = <<markers[i]>>

get_list_marker(text) ==
    LET hits == { i \in 1..Len(markers) : startswith(text, <<markers[i]>>) }
    IN  IF hits = {} THEN ""
        ELSE markers[CHOOSE i \in hits : \A j \in hits : i <= j]

\* faulty variant: Lines up to 3 units away count as similar
similar_y_lines_loose(line, all_lines) ==
    { k \in 1..Len(all_lines) : Abs(all_lines[k].y - line.y) <= Units(3) }

\* [l for l in all_lines if abs(l['y'] - y) < 2]; the line itself is one of them
similar_y_lines(line, all_lines) ==
    { k \in 1..Len(all_lines) : Abs(all_lines[k].y - line.y) < Units(2) }

is_table_row(line, all_lines) ==
    Cardinality(similar_y_lines(line, all_lines)) > 1

BaseElement(text, line) ==
    [type |-> "text", content |-> text,
     bbox |-> [x |-> line.x_min, y |-> line.y,
               width |-> line.x_max - line.x_min, height |-> line.height]]

\* faulty variant: the list-item rule is tried before the heading rule
ClassifyLine_listfirst(text, line, all_lines, w) ==
    IF is_list_item(text)
    THEN [type |-> "list_item", content |-> text, bbox |-> BaseElement(text, line).bbox,
          marker |-> get_list_marker(text)]
    ELSE IF is_heading(text, line, w)
    THEN [type |-> "heading", content |-> text, bbox |-> BaseElement(text, line).bbox,
          level |-> get_heading_level(text, line)]
    ELSE IF is_table_row(line, all_lines)
    THEN [BaseElement(text, line) EXCEPT !.type = "table_row"]
    ELSE BaseElement(text, line)

\* lines 169-192: the element built for one Line with non-empty text
ClassifyLine(text, line, all_lines, w) ==
    IF is_heading(text, line, w)
    THEN [type |-> "heading", content |-> text, bbox |-> BaseElement(text, line).bbox,
          level |-> get_heading_level(text, line)]
    ELSE IF is_list_item(text)
    THEN [type |-> "list_item", content |-> text, bbox |-> BaseElement(text, line).bbox,
          marker |-> get_list_marker(text)]
    ELSE IF is_table_row(line, all_lines)
    THEN [BaseElement(text, line) EXCEPT !.type = "table_row"]
    ELSE BaseElement(text, line)

RECURSIVE DetectWalk(_, _, _, _)
DetectWalk(rest, all_lines, w, out) ==
    IF rest = <<>> THEN out
    ELSE LET line == Head(rest)
             text == strip(line.text)
         IN  IF text = <<>>
             THEN DetectWalk(Tail(rest), all_lines, w, out)
             ELSE DetectWalk(Tail(rest), all_lines, w,
                             Append(out, ClassifyLine(text, line, all_lines, w)))

detect_structure(ls, w) == DetectWalk(ls, ls, w, <<>>)

----------------------------------------------------------------------------
(* Inputs of the classifier *)

MaxLines == 2     \* Lines handed to detect_structure

RECURSIVE Repeat(_, _)
Repeat(c, n) == IF n = 0 THEN <<>> ELSE <<c>> \o Repeat(c, n - 1)

\* "- " + body + " -" of total length n
Bracket(n) == <<"-", " ">> \o Repeat("x", n - 4) \o <<" ", "-">>

SampleTexts ==
    { <<"SQ_BLACK", " ", "T">>,
      Bracket(5),
      Bracket(10),
      <<"CIRCLE_BLACK", " ", "I">>,
      <<"-">>,
      <<"N", "o", "t", "e">>,
      Repeat("x", 50),
      <<" ", "*", " ", "x", " ">>,
      <<" ", " ">> }

\* (x_min, x_max): centre 300, and centre 350 (exactly 50 from 300 and from 400)
SampleSpans == { <<250, 350>>, <<300, 400>> }

\* anchors in half units: 100, 102 and 105
SampleAnchors == { 200, 204, 210 }

\* page.width: missing, or 800
SampleWidths == { 0, 800 }

SampleLines ==
    { [y |-> a, x_min |-> s[1], x_max |-> s[2], height |-> 1, chars |-> <<>>, text |-> t] :
        t \in SampleTexts, s \in SampleSpans, a \in SampleAnchors }

InitClassify ==
    /\ pc = "detect"
    /\ chars = <<>>
    /\ \E n \in 0..MaxLines : lines \in [1..n -> SampleLines]
    /\ width \in SampleWidths
    /\ elements = <<>>
    /\ TablesIdle
    /\ ExtractIdle

DetectStructure ==
    /\ pc = "detect"
    /\ elements' = detect_structure(lines, width)
    /\ pc' = "detected"
    /\ UNCHANGED <<chars, lines, width, tablevars, extractvars>>

NextClassify == DetectStructure

SpecClassify == InitClassify /\ [][NextClassify]_vars

----------------------------------------------------------------------------
(* Claims about detect_structure *)

\* indices of the Lines whose trimmed text is non-empty, in order
RECURSIVE KeptIndices(_, _)
KeptIndices(ls, k) ==
    IF k > Len(ls) THEN <<>>
    ELSE IF strip(ls[k].text) # <<>> THEN <<k>> \o KeptIndices(ls, k + 1)
    ELSE KeptIndices(ls, k + 1)

\* the Line that element e of the output was built from
LineOf(e) == lines[KeptIndices(lines, 1)[e]]

\* C3: one element per Line with non-empty trimmed text, in the Lines' order,
\* typed first-match-wins: heading, then list_item, then table_row, then text.
C3_FirstMatchWins ==
    pc = "detected" =>
        /\ Len(elements) = Len(KeptIndices(lines, 1))
        /\ \A e \in 1..Len(elements) :
              LET line == LineOf(e)
                  text == strip(line.text)
                  h == is_heading(text, line, width)
                  l == is_list_item(text)
                  t == is_table_row(line, lines)
              IN  /\ elements[e].content = text
                  /\ elements[e].bbox.y = line.y
                  /\ h => elements[e].type = "heading"
                  /\ (~h /\ l) => elements[e].type = "list_item"
                  /\ (~h /\ ~l /\ t) => elements[e].type = "table_row"
                  /\ (~h /\ ~l /\ ~t) => elements[e].type = "text"

\* "- x -" meets the heading and the list rule and is a heading; the Line after
\* it meets the list and the table-row rule and is a list_item
C3_Witness ==
    /\ pc = "detected"
    /\ Len(elements) = 2
    /\ elements[1].type = "heading" /\ is_list_item(elements[1].content)
    /\ elements[2].type = "list_item" /\ is_table_row(lines[2], lines)

\* C4 (as claimed): level 1 for a section marker; else 3 for "- ... -" of
\* length < 10; else 2.
C4_HeadingLevel ==
    pc = "detected" =>
        \A e \in 1..Len(elements) :
            elements[e].type = "heading" =>
                LET text == elements[e].content
                IN  elements[e].level =
                        IF StartsWithHeadingMarker(text) THEN 1
                        ELSE IF /\ startswith(text, <<"-", " ">>)
                                /\ endswith(text, <<" ", "-">>)
                                /\ Len(text) < 10 THEN 3
                        ELSE 2

\* C5 (as claimed): a Line that is neither heading nor list item is a
\* table_row exactly when another Line's anchor is within 2 units, 2 included.
C5_TableRowTolerance ==
    pc = "detected" =>
        \A e \in 1..Len(elements) :
            LET k == KeptIndices(lines, 1)[e]
                text == elements[e].content
            IN  (~is_heading(text, lines[k], width) /\ ~is_list_item(text)) =>
                    ( elements[e].type = "table_row" <=>
                        \E j \in 1..Len(lines) :
                            j # k /\ Abs(lines[j].y - lines[k].y) <= Units(2) )

----------------------------------------------------------------------------
(* Table extraction: raw grids and the page's table capability            *)
(*                                                                         *)
(* page.find_tables and table.extract are calls into pdfplumber: each      *)
(* returns a value drawn from the sample sets below or raises.  A cell of  *)
(* a raw grid is None or a string.                                         *)

NoneCell == [kind |-> "none"]

Str(s) == [kind |-> "str", s |-> s]

\* [[" A ", None], ["", " "]]
gPad == << <<Str(<<" ", "A", " ">>), NoneCell>>, <<Str(<<>>), Str(<<" ">>)>> >>

\* [["A", "B"], ["C"]]: rows of different lengths
gRag == << <<Str(<<"A">>), Str(<<"B">>)>>, <<Str(<<"C">>)>> >>

\* [["A", "B"]]
gFull == << <<Str(<<"A">>), Str(<<"B">>)>> >>

\* [[None, " "]]: cells, none of them with content
gBlank == << <<NoneCell, Str(<<" ">>)>> >>

\* [[]]: a row without cells
gNoCells == << <<>> >>

SampleGrids == { gPad, gRag, gFull, gBlank, gNoCells, <<>> }

\* top-left corners (bbox[0], bbox[1]) of the table geometries
SampleCorners == { <<0, 0>>, <<10, 0>>, <<0, 20>>, <<9, 9>> }

\* the corners drawn in flow m (the best-of flow never compares corners)
Corners(m) == IF m = "union" THEN SampleCorners ELSE { <<0, 0>> }

\* a TableGeometry found by strategy s with corner c: bbox = (x0, y0, x1, y1)
Geometry(s, c) == [strategy |-> s, bbox |-> <<c[1], c[2], c[1] + 30, c[2] + 20>>]

\* bool(cell): None and "" are falsy
Truthy(cell) == cell.kind = "str" /\ cell.s # <<>>

\* cell and str(cell).strip()
HasContent(cell) == Truthy(cell) /\ strip(cell.s) # <<>>

RECURSIVE CountRow(_)
CountRow(row) ==
    IF row = <<>> THEN 0
    ELSE (IF HasContent(Head(row)) THEN 1 ELSE 0) + CountRow(Tail(row))

\* sum(1 for row in extracted for cell in row if cell and str(cell).strip())
RECURSIVE non_empty_cells(_)
non_empty_cells(extracted) ==
    IF extracted = <<>> THEN 0
    ELSE CountRow(Head(extracted)) + non_empty_cells(Tail(extracted))

\* the dict built from table.bbox (lines 289-294 and 196-201)
BBoxDict(bbox) ==
    [x |-> bbox[1], y |-> bbox[2], width |-> bbox[3] - bbox[1], height |-> bbox[4] - bbox[2]]

----------------------------------------------------------------------------
(* extract_tables_with_coords (union with de-duplication) *)

\* the two configurations of lines 256-270
strategies_coords == <<"lines", "text">>

\* faulty variant: corners count as duplicates only when closer than 5
is_duplicate_narrow(tbls, table_data) ==
    \E i \in 1..Len(tbls) :
        /\ Abs(tbls[i].bbox.x - table_data.bbox.x) < 5
        /\ Abs(tbls[i].bbox.y - table_data.bbox.y) < 5

\* lines 298-303
is_duplicate(tbls, table_data) ==
    \E i \in 1..Len(tbls) :
        /\ Abs(tbls[i].bbox.x - table_data.bbox.x) < 10
        /\ Abs(tbls[i].bbox.y - table_data.bbox.y) < 10

\* lines 285-295
CoordsTableData(table, extracted) ==
    [data |-> extracted, rows |-> Len(extracted), cols |-> Len(extracted[1]),
     bbox |-> BBoxDict(table.bbox)]

\* lines 279-283: the table gets as far as the duplicate test
CoordsHasContent(extracted) ==
    extracted # <<>> /\ non_empty_cells(extracted) > 0

\* lines 279-306: the tables list after one table of page_tables
CoordsAccept(tbls, table, extracted) ==
    IF CoordsHasContent(extracted) /\ ~is_duplicate(tbls, CoordsTableData(table, extracted))
    THEN Append(tbls, CoordsTableData(table, extracted))
    ELSE tbls

\* the for loop of line 272 moves on, or the function returns (line 314)
CoordsAdvance ==
    IF strategy < Len(strategies_coords)
    THEN strategy' = strategy + 1 /\ pc' = "find"
    ELSE strategy' = strategy /\ pc' = "done"

\* line 274 returns a list of n tables
CoordsFindTables ==
    /\ mode = "union" /\ pc = "find"
    /\ \E n \in 0..MaxTables : remaining' = n
    /\ pc' = "extract"
    /\ UNCHANGED <<textvars, extractvars, mode, strategy, tables, best_tables, best_score,
                   current_tables, current_score, origin, failed, sums, dropped>>

\* line 274 raises: lines 310-312
CoordsFindTablesRaises ==
    /\ mode = "union" /\ pc = "find"
    /\ failed' = failed \cup {strategy}
    /\ CoordsAdvance
    /\ UNCHANGED <<textvars, extractvars, mode, remaining, tables, best_tables, best_score,
                   current_tables, current_score, origin, sums, dropped>>

\* one pass of the loop body, lines 277-308
CoordsExtractTable ==
    /\ mode = "union" /\ pc = "extract" /\ remaining > 0
    /\ \E c \in Corners(mode), extracted \in SampleGrids :
          LET table == Geometry(strategy, c)
              after == CoordsAccept(tables, table, extracted)
          IN  /\ tables' = after
              /\ origin' = IF after # tables THEN Append(origin, strategy) ELSE origin
              /\ dropped' = IF /\ CoordsHasContent(extracted)
                               /\ is_duplicate(tables, CoordsTableData(table, extracted))
                            THEN dropped \cup {c} ELSE dropped
    /\ remaining' = remaining - 1
    /\ UNCHANGED <<pc, textvars, extractvars, mode, strategy, best_tables, best_score,
                   current_tables, current_score, failed, sums>>

\* line 277 raises: the rest of page_tables is skipped, lines 310-312
CoordsExtractRaises ==
    /\ mode = "union" /\ pc = "extract" /\ remaining > 0
    /\ failed' = failed \cup {strategy}
    /\ remaining' = 0
    /\ CoordsAdvance
    /\ UNCHANGED <<textvars, extractvars, mode, tables, best_tables, best_score,
                   current_tables, current_score, origin, sums, dropped>>

\* page_tables is used up
CoordsEndStrategy ==
    /\ mode = "union" /\ pc = "extract" /\ remaining = 0
    /\ CoordsAdvance
    /\ UNCHANGED <<textvars, extractvars, mode, remaining, tables, best_tables, best_score,
                   current_tables, current_score, origin, failed, sums, dropped>>

----------------------------------------------------------------------------
(* extract_tables (best of the strategies) and clean_table *)

\* the three configurations of lines 97-131
strategies == <<"lines", "text", "mixed">>

\* lines 217-226
RECURSIVE CleanRow(_)
CleanRow(row) ==
    IF row = <<>> THEN <<>>
    ELSE <<(IF Head(row).kind = "none" THEN Str(<<>>) ELSE Str(strip(Head(row).s)))>>
         \o CleanRow(Tail(row))

\* line 229: rows with at least one non-empty cell
RECURSIVE DropEmptyRows(_)
DropEmptyRows(rows) ==
    IF rows = <<>> THEN <<>>
    ELSE (IF \E i \in 1..Len(Head(rows)) : Truthy(Head(rows)[i])
          THEN <<Head(rows)>> ELSE <<>>) \o DropEmptyRows(Tail(rows))

clean_table(table_data) ==
    IF table_data = <<>> THEN <<>>
    ELSE DropEmptyRows([i \in 1..Len(table_data) |-> CleanRow(table_data[i])])

\* len(extracted) * (len(extracted[0]) if extracted else 0)
total_cells(extracted) ==
    Len(extracted) * (IF extracted # <<>> THEN Len(extracted[1]) ELSE 0)

\* fill_ratio * total_cells with fill_ratio = non_empty_cells / total_cells, in exact arithmetic
Score(extracted) ==
    (non_empty_cells(extracted) * total_cells(extracted)) \div total_cells(extracted)

\* lines 151-166: the table becomes a candidate of the current strategy
IsCandidate(extracted) == extracted # <<>> /\ total_cells(extracted) > 0

\* faulty variant: a later strategy with an equal sum replaces the best one
Improves_orEqual(cur, bst) == cur >= bst

\* line 169
Improves(cur, bst) == cur > bst

\* lines 180-203: the tables emitted for the best candidates
RECURSIVE ProcessBest(_, _)
ProcessBest(cands, out) ==
    IF cands = <<>> THEN out
    ELSE LET cleaned_table == clean_table(Head(cands).data)
         IN  IF cleaned_table # <<>>
             THEN ProcessBest(Tail(cands),
                      Append(out, [index |-> Len(out), data |-> cleaned_table,
                                   rows |-> Len(cleaned_table),
                                   cols |-> Len(cleaned_table[1]),
                                   position |-> BBoxDict(Head(cands).table.bbox)]))
             ELSE ProcessBest(Tail(cands), out)

\* history: the strategies of the candidates that ProcessBest emits
RECURSIVE EmittedOrigins(_)
EmittedOrigins(cands) ==
    IF cands = <<>> THEN <<>>
    ELSE (IF clean_table(Head(cands).data) # <<>>
          THEN <<Head(cands).table.strategy>> ELSE <<>>) \o EmittedOrigins(Tail(cands))

\* the for loop of line 136 moves on, or goes to the loop of line 180
BestAdvance ==
    IF strategy < Len(strategies)
    THEN strategy' = strategy + 1 /\ pc' = "find"
    ELSE strategy' = strategy /\ pc' = "process"

\* lines 139-145: find_tables returns n tables
FindTables ==
    /\ mode = "best_of" /\ pc = "find"
    /\ \E n \in 0..MaxTables : remaining' = n
    /\ current_tables' = <<>>
    /\ current_score' = 0
    /\ pc' = "extract"
    /\ UNCHANGED <<textvars, extractvars, mode, strategy, tables, best_tables, best_score,
                   origin, failed, sums, dropped>>

\* line 139 raises: lines 175-177
FindTablesRaises ==
    /\ mode = "best_of" /\ pc = "find"
    /\ failed' = failed \cup {strategy}
    /\ BestAdvance
    /\ UNCHANGED <<textvars, extractvars, mode, remaining, tables, best_tables, best_score,
                   current_tables, current_score, origin, sums, dropped>>

\* one pass of the loop body, lines 147-166
ExtractTable ==
    /\ mode = "best_of" /\ pc = "extract" /\ remaining > 0
    /\ \E c \in Corners(mode), extracted \in SampleGrids :
          IF IsCandidate(extracted)
          THEN /\ current_score' = current_score + Score(extracted)
               /\ current_tables' =
                     Append(current_tables,
                            [table |-> Geometry(strategy, c), data |-> extracted,
                             score |-> Score(extracted)])
          ELSE UNCHANGED <<current_tables, current_score>>
    /\ remaining' = remaining - 1
    /\ UNCHANGED <<pc, textvars, extractvars, mode, strategy, tables, best_tables, best_score,
                   origin, failed, sums, dropped>>

\* line 149 raises: lines 175-177, the comparison of line 169 is not reached
ExtractRaises ==
    /\ mode = "best_of" /\ pc = "extract" /\ remaining > 0
    /\ failed' = failed \cup {strategy}
    /\ remaining' = 0
    /\ BestAdvance
    /\ UNCHANGED <<textvars, extractvars, mode, tables, best_tables, best_score,
                   current_tables, current_score, origin, sums, dropped>>

\* lines 168-173, reached when page_tables is used up
KeepBest ==
    /\ mode = "best_of" /\ pc = "extract" /\ remaining = 0
    /\ IF Improves(current_score, best_score)
       THEN best_score' = current_score /\ best_tables' = current_tables
       ELSE UNCHANGED <<best_score, best_tables>>
    /\ sums' = Append(sums, [strategy |-> strategy, score |-> current_score,
                             candidates |-> Len(current_tables)])
    /\ BestAdvance
    /\ UNCHANGED <<textvars, extractvars, mode, remaining, tables, current_tables, current_score,
                   origin, failed, dropped>>

\* lines 179-208
ProcessBestTables ==
    /\ mode = "best_of" /\ pc = "process"
    /\ tables' = ProcessBest(best_tables, <<>>)
    /\ origin' = EmittedOrigins(best_tables)
    /\ pc' = "done"
    /\ UNCHANGED <<textvars, extractvars, mode, strategy, remaining, best_tables, best_score,
                   current_tables, current_score, failed, sums, dropped>>

InitTables ==
    /\ pc = "find"
    /\ TextIdle
    /\ ExtractIdle
    /\ mode \in {"union", "best_of"}
    /\ strategy = 1
    /\ remaining = 0
    /\ tables = <<>>
    /\ best_tables = <<>>
    /\ best_score = 0
    /\ current_tables = <<>>
    /\ current_score = 0
    /\ origin = <<>>
    /\ failed = {}
    /\ sums = <<>>
    /\ dropped = {}

NextTables ==
    \/ CoordsFindTables
    \/ CoordsFindTablesRaises
    \/ CoordsExtractTable
    \/ CoordsExtractRaises
    \/ CoordsEndStrategy
    \/ FindTables
    \/ FindTablesRaises
    \/ ExtractTable
    \/ ExtractRaises
    \/ KeepBest
    \/ ProcessBestTables

SpecTables == InitTables /\ [][NextTables]_vars

----------------------------------------------------------------------------
(* Claims about table extraction *)

\* the largest summed score among the strategies that ran to the end (0 if none did)
TopSum ==
    LET scores == { sums[i].score : i \in 1..Len(sums) } \cup {0}
    IN  CHOOSE m \in scores : \A n \in scores : n <= m

\* position in sums of the earliest strategy that reached TopSum
Winner == CHOOSE i \in 1..Len(sums) :
              /\ sums[i].score = TopSum
              /\ \A j \in 1..Len(sums) : sums[j].score = TopSum => i <= j

\* C6: in best-of mode the candidates kept are the whole candidate set of the
\* earliest strategy with the highest summed score among the strategies that
\* did not fail; when no sum is above 0 nothing is kept and no table is emitted.
C6_BestOfSelection ==
    (mode = "best_of" /\ pc = "done") =>
        /\ \A i \in 1..Len(sums) : sums[i].strategy \notin failed
        /\ IF TopSum = 0
           THEN best_tables = <<>> /\ tables = <<>>
           ELSE /\ best_score = TopSum
                /\ Len(best_tables) = sums[Winner].candidates
                /\ \A k \in 1..Len(best_tables) :
                      best_tables[k].table.strategy = sums[Winner].strategy
                /\ \A k \in 1..Len(origin) : origin[k] = sums[Winner].strategy

\* two strategies tie on the highest sum, another one failed, and tables were emitted
C6_Witness ==
    /\ mode = "best_of" /\ pc = "done"
    /\ failed # {}
    /\ tables # <<>>
    /\ \E i, j \in 1..Len(sums) :
          i < j /\ sums[i].score = TopSum /\ sums[j].score = TopSum

\* C7 (as claimed): no two accepted tables have corners within 10 units on
\* both axes, a distance of exactly 10 counting as within.
C7_DedupWithin10 ==
    mode = "union" =>
        \A i, j \in 1..Len(tables) :
            i < j => ~( /\ Abs(tables[i].bbox.x - tables[j].bbox.x) <= 10
                        /\ Abs(tables[i].bbox.y - tables[j].bbox.y) <= 10 )

\* C7 (amended): no two accepted tables have corners less than 10 units apart
\* on both axes, and every candidate dropped as a duplicate collides with a
\* table that is still among the accepted ones.
C7_DedupBelow10 ==
    mode = "union" =>
        /\ \A i, j \in 1..Len(tables) :
              i < j => ~( /\ Abs(tables[i].bbox.x - tables[j].bbox.x) < 10
                          /\ Abs(tables[i].bbox.y - tables[j].bbox.y) < 10 )
        /\ \A c \in dropped : \E i \in 1..Len(tables) :
              /\ Abs(tables[i].bbox.x - c[1]) < 10
              /\ Abs(tables[i].bbox.y - c[2]) < 10

\* a duplicate was dropped, and two accepted tables are exactly 10 apart on the x axis
C7_Witness ==
    /\ mode = "union" /\ pc = "done"
    /\ dropped # {}
    /\ \E i, j \in 1..Len(tables) :
          /\ Abs(tables[i].bbox.x - tables[j].bbox.x) = 10
          /\ tables[i].bbox.y = tables[j].bbox.y

\* C8 (as claimed): every emitted table, in both modes, has rows of one
\* length, equal to its cols field.
C8_Rectangular ==
    pc = "done" =>
        \A k \in 1..Len(tables) : \A r \in 1..Len(tables[k].data) :
            Len(tables[k].data[r]) = tables[k].cols

\* C9 (as claimed): every emitted table, in both modes, has at least one row,
\* only string cells without surrounding whitespace, and no row of empty cells.
C9_CleanedGrid ==
    pc = "done" =>
        \A k \in 1..Len(tables) :
            /\ Len(tables[k].data) >= 1
            /\ \A r \in 1..Len(tables[k].data) :
                  LET row == tables[k].data[r]
                  IN  /\ \E i \in 1..Len(row) : Truthy(row[i])
                      /\ \A i \in 1..Len(row) :
                            row[i].kind = "str" /\ strip(row[i].s) = row[i].s

\* C10 (as claimed): in both modes the loop reaches the last configuration
\* and no emitted table comes from a configuration that raised.
C10_FailedDiscarded ==
    pc = "done" =>
        /\ strategy = (IF mode = "union" THEN Len(strategies_coords) ELSE Len(strategies))
        /\ \A k \in 1..Len(origin) : origin[k] \notin failed

----------------------------------------------------------------------------
(* Scores.  The program computes with floats; the model computes the same  *)
(* expressions exactly, on fractions <<numerator, denominator>> in lowest  *)
(* terms with a positive denominator.                                      *)

RECURSIVE GCD(_, _)
GCD(a, b) == IF b = 0 THEN a ELSE GCD(b, a % b)

Frac(n, d) ==
    LET g == GCD(Abs(n), d)
    IN  IF n = 0 THEN <<0, 1>> ELSE <<n \div g, d \div g>>

FAdd(a, b) == Frac(a[1] * b[2] + b[1] * a[2], a[2] * b[2])

FMul(a, b) == Frac(a[1] * b[1], a[2] * b[2])

\* a / b for b > 0
FDiv(a, b) == Frac(a[1] * b[2], a[2] * b[1])

FLess(a, b) == a[1] * b[2] < b[1] * a[2]

FLeq(a, b) == a[1] * b[2] <= b[1] * a[2]

FMin(a, b) == IF FLess(b, a) THEN b ELSE a

----------------------------------------------------------------------------
(* Message formatting *)

Digit == <<"0", "1", "2", "3", "4", "5", "6", "7", "8", "9">>

\* str(n) for n >= 0
RECURSIVE IntStr(_)
IntStr(n) ==
    IF n < 10 THEN <<Digit[n + 1]>> ELSE IntStr(n \div 10) \o <<Digit[(n % 10) + 1]>>

\* the nearest integer to a fraction >= 0, halves going to the even one
RoundFrac(a) ==
    LET q == a[1] \div a[2]
        r2 == 2 * (a[1] % a[2])
    IN  IF r2 < a[2] THEN q
        ELSE IF r2 > a[2] THEN q + 1
        ELSE IF q % 2 = 0 THEN q ELSE q + 1

\* f"{a:.2f}" for a >= 0
Fmt2(a) ==
    LET h == RoundFrac(FMul(a, <<100, 1>>))
    IN  IntStr(h \div 100) \o <<".", Digit[((h \div 10) % 10) + 1], Digit[(h % 10) + 1]>>

\* str.lower on the letters that occur in the messages
LowerChar(c) ==
    CASE c = "Q" -> "q" [] c = "T" -> "t" [] c = "P" -> "p" [] c = "N" -> "n"
      [] c = "L" -> "l" [] c = "O" -> "o" [] OTHER -> c

lower(t) == [i \in 1..Len(t) |-> LowerChar(t[i])]

\* needle in t
Contains(t, needle) ==
    \E i \in 1..(Len(t) - Len(needle) + 1) : SubSeq(t, i, i + Len(needle) - 1) = needle

----------------------------------------------------------------------------
(* The quality assessors (assess_table_quality, assess_text_quality,       *)
(* assess_structure_quality) over a result's pages                         *)

RECURSIVE CellCount(_)
CellCount(data) ==
    IF data = <<>> THEN 0 ELSE Len(Head(data)) + CellCount(Tail(data))

\* min(1.0, rows * cols / 10.0)
size_factor(table) == FMin(<<1, 1>>, Frac(table.rows * table.cols, 10))

assess_table_quality(table) ==
    IF table.data = <<>> THEN <<0, 1>>
    ELSE IF CellCount(table.data) = 0 THEN <<0, 1>>
    ELSE FMul(Frac(non_empty_cells(table.data), CellCount(table.data)),
              FAdd(<<7, 10>>, FMul(<<3, 10>>, size_factor(table))))

\* all elements of all pages, in order
RECURSIVE AllElements(_)
AllElements(pages) ==
    IF pages = <<>> THEN <<>> ELSE Head(pages).elements \o AllElements(Tail(pages))

\* all tables of all pages, each with its page number; a page without tables has no "tables" key
RECURSIVE AllTables(_)
AllTables(pages) ==
    IF pages = <<>> THEN <<>>
    ELSE [i \in 1..Len(Head(pages).tables) |->
             [page |-> Head(pages).number, table |-> Head(pages).tables[i]]]
         \o AllTables(Tail(pages))

\* lines 416-424: total_chars over the elements with non-empty stripped content
RECURSIVE total_chars(_)
total_chars(es) ==
    IF es = <<>> THEN 0
    ELSE Len(strip(Head(es).content)) + total_chars(Tail(es))

\* lines 416-424: elements whose stripped content is longer than 2
RECURSIVE meaningful_elements(_)
meaningful_elements(es) ==
    IF es = <<>> THEN 0
    ELSE (IF Len(strip(Head(es).content)) > 2 THEN 1 ELSE 0) + meaningful_elements(Tail(es))

\* faulty variant: the element score is not capped at 1.0
element_score_uncapped(pages) ==
    Frac(meaningful_elements(AllElements(pages)), Len(pages) * 5)

\* line 439: min(1.0, meaningful_elements / (pages_count * 5))
element_score(pages) ==
    FMin(<<1, 1>>, Frac(meaningful_elements(AllElements(pages)), Len(pages) * 5))

\* line 436: min(1.0, avg_chars_per_page / 100.0)
char_score(pages) ==
    FMin(<<1, 1>>, FDiv(Frac(total_chars(AllElements(pages)), Len(pages)), <<100, 1>>))

assess_text_quality(pages) ==
    IF total_chars(AllElements(pages)) = 0 THEN <<0, 1>>
    ELSE IF Len(pages) = 0 THEN <<0, 1>>
    ELSE FAdd(FMul(char_score(pages), <<6, 10>>), FMul(element_score(pages), <<4, 10>>))

HasType(pages, type) ==
    \E i \in 1..Len(AllElements(pages)) : AllElements(pages)[i].type = type

assess_structure_quality(pages) ==
    FAdd(FAdd(IF HasType(pages, "heading") THEN <<4, 10>> ELSE <<0, 1>>,
              IF HasType(pages, "list_item") THEN <<3, 10>> ELSE <<0, 1>>),
         IF AllTables(pages) # <<>> THEN <<3, 10>> ELSE <<0, 1>>)

----------------------------------------------------------------------------
(* assess_quality: returns the overall score and leaves its findings in    *)
(* self.quality_report                                                     *)

\* f"Page {n}: Table with {rows}x{cols} is mostly empty (quality: {q:.2f})"
MostlyEmptyMsg(n, table, q) ==
    <<"P", "a", "g", "e", " ">> \o IntStr(n) \o <<":", " ", "T", "a", "b", "l", "e", " ", "w", "i", "t", "h", " ">> \o IntStr(table.rows) \o <<"x">>
    \o IntStr(table.cols) \o <<" ", "i", "s", " ", "m", "o", "s", "t", "l", "y", " ", "e", "m", "p", "t", "y", " ", "(", "q", "u", "a", "l", "i", "t", "y", ":", " ">> \o Fmt2(q) \o <<")">>

\* f"Table quality too low: {avg:.2f} average"
TableQualityMsg(avg) == <<"T", "a", "b", "l", "e", " ", "q", "u", "a", "l", "i", "t", "y", " ", "t", "o", "o", " ", "l", "o", "w", ":", " ">> \o Fmt2(avg) \o <<" ", "a", "v", "e", "r", "a", "g", "e">>

\* lines 325-342: the report after the tables ts (with page numbers) were visited
RECURSIVE ReportTables(_, _)
ReportTables(ts, report) ==
    IF ts = <<>> THEN report
    ELSE LET table == Head(ts).table
             quality == assess_table_quality(table)
             scored == [report EXCEPT !.table_scores =
                          Append(@, [page |-> Head(ts).page, rows |-> table.rows,
                                     cols |-> table.cols, quality |-> quality])]
         IN  ReportTables(Tail(ts),
                 IF FLess(quality, <<1, 10>>)
                 THEN [scored EXCEPT !.warnings =
                          Append(@, MostlyEmptyMsg(Head(ts).page, table, quality))]
                 ELSE scored)

RECURSIVE table_quality_sum(_)
table_quality_sum(ts) ==
    IF ts = <<>> THEN <<0, 1>>
    ELSE FAdd(assess_table_quality(Head(ts).table), table_quality_sum(Tail(ts)))

avg_table_quality(pages) ==
    FDiv(table_quality_sum(AllTables(pages)), <<Len(AllTables(pages)), 1>>)

\* faulty variant: the sum of the weights is taken to be 1 also without tables
overall_score_unnormalized(pages) ==
    FAdd(FAdd(IF AllTables(pages) # <<>> THEN FMul(avg_table_quality(pages), <<5, 10>>)
              ELSE <<0, 1>>,
              FMul(assess_text_quality(pages), <<3, 10>>)),
         FMul(assess_structure_quality(pages), <<2, 10>>))

\* lines 344-369: total_score / sum(score_weights)
overall_score(pages) ==
    LET with_tables == AllTables(pages) # <<>>
        total_score ==
            FAdd(FAdd(IF with_tables THEN FMul(avg_table_quality(pages), <<5, 10>>)
                      ELSE <<0, 1>>,
                      FMul(assess_text_quality(pages), <<3, 10>>)),
                 FMul(assess_structure_quality(pages), <<2, 10>>))
        weights ==
            FAdd(FAdd(IF with_tables THEN <<5, 10>> ELSE <<0, 1>>, <<3, 10>>), <<2, 10>>)
    IN  IF FLess(<<0, 1>>, weights) THEN FDiv(total_score, weights) ELSE <<0, 1>>

\* the score returned and self.quality_report afterwards
assess_quality(pages, report) ==
    LET visited == ReportTables(AllTables(pages), report)
        judged ==
            IF AllTables(pages) # <<>> /\ FLess(avg_table_quality(pages), <<2, 10>>)
            THEN [visited EXCEPT !.errors = Append(@, TableQualityMsg(avg_table_quality(pages)))]
            ELSE visited
    IN  [score |-> overall_score(pages),
         report |-> [judged EXCEPT !.overall_score = overall_score(pages)],
         parts |-> [text |-> assess_text_quality(pages),
                    structure |-> assess_structure_quality(pages)]]

----------------------------------------------------------------------------
(* extract() of both extractors, and main() of pdf_extract_coords.py       *)

\* f"Quality too low: {quality_score:.2f} (minimum: {self.min_quality:.2f})"
QualityTooLowMsg(score, minimum) ==
    <<"Q", "u", "a", "l", "i", "t", "y", " ", "t", "o", "o", " ", "l", "o", "w", ":", " ">> \o Fmt2(score) \o <<" ", "(", "m", "i", "n", "i", "m", "u", "m", ":", " ">> \o Fmt2(minimum) \o <<")">>

\* f"File not found: {args.pdf_file}"
FileNotFoundMsg == <<"F", "i", "l", "e", " ", "n", "o", "t", " ", "f", "o", "u", "n", "d", ":", " ", "x", ".", "p", "d", "f">>

\* lines 502-503
EffMinQuality(a) == IF a.ignore_quality THEN <<0, 1>> ELSE a.min_quality

EffStrict(a) == IF a.ignore_quality THEN FALSE ELSE a.strict

\* position of the first page whose processing raises (0 if none does)
FirstFault(pages) ==
    IF \E i \in 1..Len(pages) : pages[i].fault # <<>>
    THEN CHOOSE i \in 1..Len(pages) :
            pages[i].fault # <<>> /\ \A j \in 1..(i - 1) : pages[j].fault = <<>>
    ELSE 0

\* page_data of extract_page_with_coords for page i (lines 90-118)
PageData(pages, i) ==
    [number |-> i, layout |-> [width |-> pages[i].width, height |-> pages[i].height],
     elements |-> pages[i].elements, tables |-> pages[i].tables]

\* page_data of PDFExtractor.extract_page for page i (pdf_extract.py lines 71-90)
PlainPageData(pages, i) ==
    [number |-> i, text |-> pages[i].text, tables |-> pages[i].plain_tables,
     layout |-> [width |-> pages[i].width, height |-> pages[i].height]]

\* faulty variant: a failing page is left out and the loop goes on
Processed_skipping(pages) ==
    { i \in 1..Len(pages) : pages[i].fault = <<>> }

\* the pages the loop of line 55 gets through: those before the first fault
Processed(pages) ==
    IF FirstFault(pages) = 0 THEN 1..Len(pages) ELSE 1..(FirstFault(pages) - 1)

\* the i-th smallest member of a set of numbers
RECURSIVE Nth(_, _)
Nth(S, i) ==
    LET m == CHOOSE x \in S : \A y \in S : x <= y
    IN  IF i = 1 THEN m ELSE Nth(S \ {m}, i - 1)

\* result["pages"] when the with block is left
ResultPages(pages) ==
    [k \in 1..Cardinality(Processed(pages)) |-> PageData(pages, Nth(Processed(pages), k))]

PlainResultPages(pages) ==
    [k \in 1..Cardinality(Processed(pages)) |-> PlainPageData(pages, Nth(Processed(pages), k))]

\* str(e) of the exception that ends the try block, <<>> if none is raised
Raised(d) ==
    IF d.open_error # <<>> THEN d.open_error
    ELSE IF FirstFault(d.pages) # 0 THEN d.pages[FirstFault(d.pages)].fault
    ELSE <<>>

\* faulty variant: a low score fails the extraction also when strict is not set
Gate_always_strict(res, report, score, minimum, is_strict) ==
    IF FLess(score, minimum)
    THEN [result |-> [res EXCEPT !.success = FALSE,
                                 !.error = <<QualityTooLowMsg(score, minimum)>>],
          report |-> [report EXCEPT !.errors =
                         Append(@, QualityTooLowMsg(score, minimum))]]
    ELSE [result |-> res, report |-> report]

\* lines 69-77: result and report after the threshold test
Gate(res, report, score, minimum, is_strict) ==
    IF FLess(score, minimum)
    THEN IF is_strict
         THEN [result |-> [res EXCEPT !.success = FALSE,
                                      !.error = <<QualityTooLowMsg(score, minimum)>>],
               report |-> [report EXCEPT !.errors =
                              Append(@, QualityTooLowMsg(score, minimum))]]
         ELSE [result |-> res,
               report |-> [report EXCEPT !.warnings =
                              Append(@, QualityTooLowMsg(score, minimum))]]
    ELSE [result |-> res, report |-> report]

\* CoordinateBasedExtractor.extract (lines 31-86): the result returned and
\* self.quality_report afterwards.  error and quality are <<>> for None;
\* result["quality"]["report"] is the object self.quality_report itself.
extract(d, minimum, is_strict, report) ==
    IF Raised(d) # <<>>
    THEN [result |-> [success |-> FALSE,
                      pages |-> IF d.open_error # <<>> THEN <<>> ELSE ResultPages(d.pages),
                      error |-> <<Raised(d)[1]>>, quality |-> <<>>],
          report |-> report, parts |-> <<>>]
    ELSE LET q == assess_quality(ResultPages(d.pages), report)
             g == Gate([success |-> TRUE, pages |-> ResultPages(d.pages), error |-> <<>>,
                        quality |-> <<[score |-> q.score]>>],
                       q.report, q.score, minimum, is_strict)
         IN  [result |-> g.result, report |-> g.report, parts |-> <<q.parts>>]

\* PDFExtractor.extract (pdf_extract.py lines 30-67)
extract_plain(d) ==
    IF Raised(d) # <<>>
    THEN [success |-> FALSE,
          pages |-> IF d.open_error # <<>> THEN <<>> ELSE PlainResultPages(d.pages),
          error |-> <<Raised(d)[1]>>]
    ELSE [success |-> TRUE, pages |-> PlainResultPages(d.pages), error |-> <<>>]

\* lines 514-524
ExitCode(res, a) ==
    IF ~res.success
    THEN IF Contains(lower(IF res.error = <<>> THEN <<>> ELSE res.error[1]), <<"q", "u", "a", "l", "i", "t", "y", " ", "t", "o", "o", " ", "l", "o", "w">>)
         THEN 3 ELSE 1
    ELSE IF res.quality # <<>>
         THEN IF FLess(res.quality[1].score, EffMinQuality(a)) /\ ~a.ignore_quality
              THEN 2 ELSE 0
         ELSE 0

----------------------------------------------------------------------------
(* Inputs of extract(): documents whose pages either raise or yield what   *)
(* the per-page steps above produce                                        *)

\* Lines 20 units apart, far from the page centre, carrying the given texts
PageLines(texts) ==
    [k \in 1..Len(texts) |->
        [y |-> Units(20 * k), x_min |-> 0, x_max |-> 100, height |-> 1,
         chars |-> <<>>, text |-> texts[k]]]

PageWidth == 600

PageElements(texts) == detect_structure(PageLines(texts), PageWidth)

Note == <<"N", "o", "t", "e">>

\* a 3x4 grid with a single cell that has content
gSparse ==
    << <<Str(<<"A">>), NoneCell, NoneCell, NoneCell>>,
       <<NoneCell, NoneCell, NoneCell, NoneCell>>,
       <<NoneCell, NoneCell, NoneCell, NoneCell>> >>

\* what extract_tables_with_coords returns for a page with one such table
PageTables(grid) == CoordsAccept(<<>>, Geometry(1, <<0, 0>>), grid)

\* what PDFExtractor.extract_tables returns for a page with one such table
PlainTables(grid) == ProcessBest(<<[table |-> Geometry(1, <<0, 0>>), data |-> grid]>>, <<>>)

GoodPage(texts, tbls, plain) ==
    [fault |-> <<>>, width |-> PageWidth, height |-> 800,
     elements |-> PageElements(texts), tables |-> tbls,
     text |-> IF texts = <<>> THEN <<>> ELSE texts[1], plain_tables |-> plain]

\* a page whose processing raises an exception with str(e) = msg
FaultyPage(msg) ==
    [fault |-> <<msg>>, width |-> PageWidth, height |-> 800,
     elements |-> <<>>, tables |-> <<>>, text |-> <<>>, plain_tables |-> <<>>]

\* str(e) of the sample exceptions: a plain one, an empty one, and one that
\* quotes the name of the file
FaultMsgs ==
    { <<"b", "a", "d", " ", "p", "a", "g", "e">>, <<>>, <<"C", "a", "n", "n", "o", "t", " ", "r", "e", "a", "d", " ", "'", "Q", "u", "a", "l", "i", "t", "y", " ", "T", "o", "o", " ", "L", "o", "w", ".", "p", "d", "f", "'">> }

pEmpty == GoodPage(<<>>, <<>>, <<>>)

\* a heading, a list item, eight paragraphs and a full table
pRich ==
    GoodPage(<< <<"SQ_BLACK", " ", "T">>, <<"CIRCLE_BLACK", " ", "I">> >>
             \o [k \in 1..8 |-> Note],
             PageTables(gFull), PlainTables(gFull))

pFive == GoodPage([k \in 1..5 |-> Note], <<>>, <<>>)

\* two paragraphs of 60 characters
pLong == GoodPage(<<Repeat("x", 60), Repeat("x", 60)>>, <<>>, <<>>)

\* one element of two characters
pTiny == GoodPage(<< <<"a", "b">> >>, <<>>, <<>>)

pSparse == GoodPage(<<Note>>, PageTables(gSparse), PlainTables(gSparse))

\* a heading and a paragraph, no table
pTitled == GoodPage(<< <<"SQ_BLACK", " ", "T">>, Note >>, <<>>, <<>>)

SamplePages ==
    { pEmpty, pRich, pFive, pLong, pTiny, pSparse, pTitled } \cup { FaultyPage(m) : m \in FaultMsgs }

\* --min-quality values: the default 0.2, 0.5 and 1.0
SampleMinQuality == { <<1, 5>>, <<1, 2>>, <<1, 1>> }

\* str(e) when the file to open does not exist
NoSuchFileMsg == <<"N", "o", " ", "s", "u", "c", "h", " ", "f", "i", "l", "e", ":", " ", "'", "x", ".", "p", "d", "f", "'">>

InitExtract ==
    /\ pc = "start"
    /\ TextIdle
    /\ TablesIdle
    /\ \/ doc = [exists |-> FALSE, open_error |-> <<NoSuchFileMsg>>, pages |-> <<>>]
       \/ \E m \in FaultMsgs : doc = [exists |-> TRUE, open_error |-> <<m>>, pages |-> <<>>]
       \/ \E n \in 0..MaxPages : \E ps \in [1..n -> SamplePages] :
             doc = [exists |-> TRUE, open_error |-> <<>>, pages |-> ps]
    /\ args \in [min_quality : SampleMinQuality, strict : BOOLEAN, ignore_quality : BOOLEAN]
    /\ quality_report = NewReport
    /\ result = <<>>
    /\ calls = 0
    /\ prev_report = NewReport
    /\ parts = <<>>
    /\ exit_code = -1

\* extractor.extract() on the extractor built at lines 505-511
Extract ==
    /\ pc \in {"start", "called"}
    /\ calls < MaxCalls
    /\ LET r == extract(doc, EffMinQuality(args), EffStrict(args), quality_report)
       IN  /\ result' = r.result
           /\ quality_report' = r.report
           /\ parts' = r.parts
    /\ prev_report' = quality_report
    /\ calls' = calls + 1
    /\ pc' = "called"
    /\ UNCHANGED <<textvars, tablevars, doc, args, exit_code>>

\* PDFExtractor.extract() (pdf_extract.py lines 30-67)
ExtractPlain ==
    /\ pc = "start"
    /\ result' = extract_plain(doc)
    /\ pc' = "called_plain"
    /\ UNCHANGED <<textvars, tablevars, doc, args, quality_report, calls, prev_report, parts,
                   exit_code>>

\* main() of pdf_extract_coords.py (lines 492-524) with a new extractor
Main ==
    /\ pc = "start"
    /\ IF ~doc.exists
       THEN /\ result' = [success |-> FALSE, error |-> <<FileNotFoundMsg>>]
            /\ exit_code' = 1
            /\ UNCHANGED <<quality_report, parts>>
       ELSE LET r == extract(doc, EffMinQuality(args), EffStrict(args), NewReport)
            IN  /\ result' = r.result
                /\ quality_report' = r.report
                /\ parts' = r.parts
                /\ exit_code' = ExitCode(r.result, args)
    /\ pc' = "exited"
    /\ UNCHANGED <<textvars, tablevars, doc, args, calls, prev_report>>

NextExtract ==
    \/ Extract
    \/ ExtractPlain
    \/ Main

SpecExtract == InitExtract /\ [][NextExtract]_vars

----------------------------------------------------------------------------
(* Claims about the quality scores *)

\* the last call made a quality assessment
Assessed == pc \in {"called", "exited"} /\ parts # <<>>

\* C11: the overall score of every assessed result lies in [0, 1]; with at
\* least one table it is 0.5 * (average table quality) + 0.3 * text quality
\* + 0.2 * structure quality, and without tables it is
\* 0.6 * text quality + 0.4 * structure quality.
C11_OverallScore ==
    Assessed =>
        LET score == result.quality[1].score
            text == parts[1].text
            structure == parts[1].structure
            found == AllTables(result.pages)
        IN  /\ FLeq(<<0, 1>>, score) /\ FLeq(score, <<1, 1>>)
            /\ found # <<>> =>
                 score = FAdd(FAdd(FMul(<<1, 2>>, avg_table_quality(result.pages)),
                                   FMul(<<3, 10>>, text)),
                              FMul(<<1, 5>>, structure))
            /\ found = <<>> =>
                 score = FAdd(FMul(<<3, 5>>, text), FMul(<<2, 5>>, structure))

\* a document without tables was assessed and scored above zero
C11_Witness ==
    /\ Assessed
    /\ AllTables(result.pages) = <<>>
    /\ FLess(<<0, 1>>, result.quality[1].score)
    /\ FLess(<<0, 1>>, parts[1].structure)

\* elements of one page whose stripped content is longer than 2 characters
MeaningfulOn(page) == meaningful_elements(page.elements)

\* C12 as stated: f is the fraction of the pages that have at least 5 meaningful elements
PagesReachingFive(pages) ==
    Frac(Cardinality({ i \in 1..Len(pages) : MeaningfulOn(pages[i]) >= 5 }), Len(pages))

\* C12 as the code computes it: f is the number of meaningful elements of the
\* document over 5 per page, capped at 1
MeaningfulShare(pages) ==
    LET share == Frac(meaningful_elements(AllElements(pages)), 5 * Len(pages))
    IN  IF FLess(<<1, 1>>, share) THEN <<1, 1>> ELSE share

TextQualityWith(pages, f) ==
    FAdd(FMul(<<3, 5>>, FMin(<<1, 1>>, Frac(total_chars(AllElements(pages)), 100 * Len(pages)))),
         FMul(<<2, 5>>, f))

\* the assessed document has a page and an element with content
HasText == Assessed /\ Len(result.pages) >= 1 /\ total_chars(AllElements(result.pages)) > 0

\* C12 (as stated): text quality is 0.6 * min(1, avg / 100) + 0.4 * f with f the
\* fraction of pages that each reach at least 5 meaningful elements.
C12_PerPageFraction ==
    HasText => parts[1].text = TextQualityWith(result.pages, PagesReachingFive(result.pages))

\* C12 (amended): text quality is 0.6 * min(1, avg / 100) + 0.4 * f with
\* f = min(1, meaningful elements of the whole document / (5 * pages)).
C12_DocumentShare ==
    HasText => parts[1].text = TextQualityWith(result.pages, MeaningfulShare(result.pages))

\* two pages, one with 10 meaningful elements and one with none
C12_Witness ==
    /\ HasText
    /\ Len(result.pages) = 2
    /\ MeaningfulOn(result.pages[1]) = 10
    /\ MeaningfulOn(result.pages[2]) = 0
    /\ parts[1].text = TextQualityWith(result.pages, <<1, 1>>)

----------------------------------------------------------------------------
(* Claims about the acceptance gate, the exit code and faults *)

\* the document of the last call raised while it was opened or while a page was processed
Faulted == doc.open_error # <<>> \/ \E i \in 1..Len(doc.pages) : doc.pages[i].fault # <<>>

\* the score of the last assessment is below the threshold the extractor was built with
BelowThreshold == Assessed /\ FLess(result.quality[1].score, EffMinQuality(args))

\* the report as assess_quality left it, before the threshold test
BeforeGate == assess_quality(result.pages, prev_report).report

Last(q) == q[Len(q)]

\* C13: after all pages were processed without fault, a score below
\* min_quality with strict set gives success = false and an error message
\* that is also appended to the report's errors; below min_quality without
\* strict, success stays true, error stays null and the message goes to the
\* report's warnings only; otherwise the gate changes neither success,
\* error, warnings nor errors.
C13_AcceptanceGate ==
    Assessed =>
        /\ (BelowThreshold /\ EffStrict(args)) =>
              /\ result.success = FALSE
              /\ Len(result.error) = 1
              /\ Contains(result.error[1], Fmt2(result.quality[1].score))
              /\ quality_report.errors = Append(BeforeGate.errors, result.error[1])
              /\ quality_report.warnings = BeforeGate.warnings
        /\ (BelowThreshold /\ ~EffStrict(args)) =>
              /\ result.success = TRUE
              /\ result.error = <<>>
              /\ Len(quality_report.warnings) = Len(BeforeGate.warnings) + 1
              /\ SubSeq(quality_report.warnings, 1, Len(BeforeGate.warnings)) = BeforeGate.warnings
              /\ Contains(Last(quality_report.warnings), Fmt2(result.quality[1].score))
              /\ quality_report.errors = BeforeGate.errors
        /\ ~BelowThreshold =>
              /\ result.success = TRUE
              /\ result.error = <<>>
              /\ quality_report.warnings = BeforeGate.warnings
              /\ quality_report.errors = BeforeGate.errors

\* a lenient extractor returned a result below its threshold
C13_Witness ==
    /\ pc = "called"
    /\ BelowThreshold
    /\ ~EffStrict(args)
    /\ result.success = TRUE
    /\ quality_report.warnings # <<>>

\* C14: main() exits with 3 exactly when the score is below the threshold
\* and strict is on, with 2 exactly when it is below and strict is off, with
\* 1 exactly when extraction failed for another reason (file missing, open
\* or page fault) whatever the fault's message, and with 0 otherwise.
C14_ExitCode ==
    pc = "exited" =>
        exit_code = IF ~doc.exists \/ Faulted THEN 1
                    ELSE IF BelowThreshold /\ EffStrict(args) THEN 3
                    ELSE IF BelowThreshold THEN 2
                    ELSE 0

\* the pages before the first one that raises, numbered from 1
PagesBeforeFault ==
    IF doc.open_error # <<>> THEN 0
    ELSE Cardinality({ i \in 1..Len(doc.pages) : \A j \in 1..i : doc.pages[j].fault = <<>> })

\* C15: in both flows, when opening the document or processing a page
\* raises, extract() returns success = false with a non-null error, holds
\* only the pages before the failing one, and (coordinate flow) makes no
\* quality assessment: quality stays null and the report is untouched.
C15_FaultContained ==
    (pc \in {"called", "called_plain", "exited"} /\ Faulted /\ (pc = "exited" => doc.exists)) =>
        /\ result.success = FALSE
        /\ Len(result.error) = 1
        /\ Len(result.pages) = PagesBeforeFault
        /\ \A k \in 1..Len(result.pages) : result.pages[k].number = k
        /\ pc # "called_plain" =>
              /\ result.quality = <<>>
              /\ parts = <<>>
              /\ quality_report = prev_report

\* the second page of a document raised after the first was processed
C15_Witness ==
    /\ pc \in {"called", "called_plain"}
    /\ Len(doc.pages) = 2
    /\ doc.pages[1].fault = <<>>
    /\ doc.pages[2].fault # <<>>
    /\ Len(result.pages) = 1
    /\ result.success = FALSE

\* C17: every extract() call on the same extractor and document leaves the
\* same report: one table_scores entry per table of the result, and only
\* the warnings and errors of that call.
C17_ReportPerCall ==
    (pc = "called" /\ Assessed) =>
        /\ Len(quality_report.table_scores) = Len(AllTables(result.pages))
        /\ quality_report =
              extract(doc, EffMinQuality(args), EffStrict(args), NewReport).report

----------------------------------------------------------------------------
(* The per-page pipeline of extract_page_with_coords: the Lines of         *)
(* group_text_by_lines go straight into detect_structure                   *)

\* glyph tops of the page, in half units: 0, 1.5, 2, 2.5, 4.5 and 5
SampleTops == {0, 3, 4, 5, 9, 10}

InitPage ==
    /\ pc = "page"
    /\ \E n \in 0..MaxChars : \E f \in [1..n -> SampleTops \X (0..MaxX)] :
          chars = [i \in 1..n |-> GlyphAt(i, f[i][1], f[i][2])]
    /\ lines = <<>>
    /\ width \in SampleWidths
    /\ elements = <<>>
    /\ TablesIdle
    /\ ExtractIdle

\* lines 99-111
ExtractPageWithCoords ==
    /\ pc = "page"
    /\ lines' = group_text_by_lines(chars)
    /\ elements' = detect_structure(group_text_by_lines(chars), width)
    /\ pc' = "paged"
    /\ UNCHANGED <<chars, width, tablevars, extractvars>>

NextPage == ExtractPageWithCoords

SpecPage == InitPage /\ [][NextPage]_vars

\* C16: in the per-page pipeline the anchors of any two distinct Lines
\* differ by more than 2, and no element of the page result has type
\* table_row.
C16_NoTableRow ==
    pc = "paged" =>
        /\ \A i, j \in 1..Len(lines) :
              i # j => Abs(lines[i].y - lines[j].y) > Units(2)
        /\ \A k \in 1..Len(elements) : elements[k].type # "table_row"

\* a page with glyphs 2.5 units apart gave two Lines and two elements
C16_Witness ==
    /\ pc = "paged"
    /\ Len(lines) >= 2
    /\ Len(elements) >= 2
    /\ \E i, j \in 1..Len(lines) : Abs(lines[i].y - lines[j].y) = Units(2) + 1

====
